---- MODULE Spec2Model ----
(***************************************************************************)
(* Model of the ZoneFlow payment service (src/src/main.py): the            *)
(* subscriptions.json store, the Stripe webhook handler with its Telegram  *)
(* side effects, and the admin read endpoints.                             *)
(***************************************************************************)
EXTENDS Integers, Sequences, FiniteSets, TLC

VARIABLES
    config,   \* environment read at import time (main.py 16-27)
    file,     \* subscriptions.json: [ok, data]; data is the dict in insertion order
    last,     \* the most recent HTTP request and what the handler did for it
    tick,     \* flips on every handled request
    round,    \* concurrent deliveries: number of rounds started
    base,     \* concurrent deliveries: the file when the round started
    procs     \* concurrent deliveries: each call's position, operation and local dict

vars == <<config, file, last, tick, round, base, procs>>

----------------------------------------------------------------------------
(* Bounds and value domains *)

MaxRounds == 2

None == "None"
NoPeriod == 0

Tids == {"42", "abc"}
NumericTids == {"42"}
Sids == {"sub_1", "sub_2"}
Plans == {"monthly"}
PlanInputs == Plans
DefaultPlan == "test-plan"
StripeStatuses == {"active", "past_due", "canceled"}
Periods == {1}

ADMIN_API_KEY == "changeme"
AdminKeys == {None, "changeme", "wrong"}

EmptyDict == << >>
EmptyFile == [ok |-> TRUE, data |-> EmptyDict]

----------------------------------------------------------------------------
(* Subscriptions storage *)

\* load_subscriptions: {} when the file is missing or does not parse.
load_subscriptions(f) == IF f.ok THEN f.data ELSE EmptyDict

\* save_subscriptions: open(..., "w") then json.dump, every exception swallowed.
\* how = "ok": the file holds data; "open_fails": open raised and the file is
\* as it was; "write_fails": open truncated the file, json.dump raised, and the
\* file holds a partial document that json.load rejects.
save_subscriptions(f, data, how) ==
    CASE how = "ok" -> [ok |-> TRUE, data |-> data]
      [] how = "open_fails" -> f
      [] OTHER -> [ok |-> FALSE, data |-> EmptyDict]

IndexOf(subs, tid) ==
    IF \E i \in 1..Len(subs) : subs[i].tid = tid
    THEN CHOOSE i \in 1..Len(subs) : subs[i].tid = tid
    ELSE 0

\* The store as a list of records: every write adds one.
DictSet_Append(subs, info) == Append(subs, info)

\* subs[key] = info on a Python dict: in place when the key exists, else appended.
DictSet(subs, info) ==
    LET i == IndexOf(subs, info.tid)
    IN IF i = 0 THEN Append(subs, info) ELSE [subs EXCEPT ![i] = info]

Info(tid, sid, plan, status, cpe) ==
    [tid |-> tid, subscription_id |-> sid, plan |-> plan,
     status |-> status, current_period_end |-> cpe]

record_subscription(f, tid, sid, plan, status, cpe, how) ==
    LET subs == load_subscriptions(f)
    IN save_subscriptions(f, DictSet(subs, Info(tid, sid, plan, status, cpe)), how)

Matches(subs, sid) == {i \in 1..Len(subs) : subs[i].subscription_id = sid}

SetStatus(subs, sid, status, cpe) ==
    [i \in 1..Len(subs) |->
        IF subs[i].subscription_id = sid
        THEN [subs[i] EXCEPT !.status = status,
                             !.current_period_end = IF cpe # NoPeriod THEN cpe ELSE @]
        ELSE subs[i]]

update_subscription_status(f, sid, status, cpe, how) ==
    LET subs == load_subscriptions(f)
        changed == Matches(subs, sid) # {}
    IN [changed |-> changed,
        file |-> IF changed
                 THEN save_subscriptions(f, SetStatus(subs, sid, status, cpe), how)
                 ELSE f]

Min(S) == CHOOSE x \in S : \A y \in S : x <= y

find_telegram_by_subscription(f, sid) ==
    LET subs == load_subscriptions(f)
        m == Matches(subs, sid)
    IN IF m = {} THEN None ELSE subs[Min(m)].tid

----------------------------------------------------------------------------
(* Telegram helpers.  Each returns the calls it made, in order; a call is   *)
(* [op, to, what].                                                          *)

Call(op, to, what) == [op |-> op, to |-> to, what |-> what]

\* send_telegram_message: nothing is posted without a bot token; the response
\* is only printed and an exception of the post is swallowed, so the outcome of
\* the post changes nothing the service does.
send_telegram_message(cfg, chat_id, kind) ==
    IF ~cfg.TELEGRAM_BOT_TOKEN
    THEN << >>
    ELSE <<Call("sendMessage", chat_id, kind)>>

\* create_single_use_invite_link: whether it returns a link ("link") or None,
\* and the API call it made.  invite is the outcome of createChatInviteLink:
\* "ok", or "failed" for a reply that is not ok and for an exception (both
\* return the static link, which may be unset).
StaticLink(cfg) == IF cfg.VIP_STATIC_INVITE_LINK THEN "link" ELSE None

create_single_use_invite_link(cfg, invite) ==
    IF ~cfg.VIP_CHANNEL_ID
    THEN [link |-> StaticLink(cfg), calls |-> << >>]
    ELSE [link |-> IF invite = "ok" THEN "link" ELSE StaticLink(cfg),
          calls |-> <<Call("createChatInviteLink", None, None)>>]

get_vip_invite_link(cfg, invite) ==
    LET r == create_single_use_invite_link(cfg, invite)
    IN [link |-> IF r.link # None THEN r.link ELSE StaticLink(cfg),
        calls |-> r.calls]

\* remove_user_from_vip: ban then unban inside one try; int(telegram_user_id)
\* is evaluated before the try, so a non-numeric id raises out of the function.
\* ban is the outcome of the banChatMember post: "returned" (any reply) or
\* "raised"; an exception of the unban post is swallowed as the last statement.
remove_user_from_vip(cfg, tid, ban) ==
    IF ~cfg.VIP_CHANNEL_ID
    THEN [raised |-> FALSE, calls |-> << >>]
    ELSE IF tid \notin NumericTids
    THEN [raised |-> TRUE, calls |-> << >>]
    ELSE IF ban = "raised"
    THEN [raised |-> FALSE, calls |-> <<Call("banChatMember", tid, ban)>>]
    ELSE [raised |-> FALSE,
          calls |-> <<Call("banChatMember", tid, ban),
                      Call("unbanChatMember", tid, None)>>]

----------------------------------------------------------------------------
(* Stripe webhook.  ev is the event in the payload, sig whether the         *)
(* signature header verifies against the secret, o the outcomes of the      *)
(* external calls the handler makes.                                        *)

CHECKOUT == "checkout.session.completed"
PAID == "invoice.payment_succeeded"
DELETED == "customer.subscription.deleted"
FAILED == "invoice.payment_failed"
OTHER_TYPE == "customer.created"

Result(f, code, calls) == [file |-> f, code |-> code, calls |-> calls]

\* The calls of one update_subscription_status: it saves only when a record matched.
Updated(sid, status, changed, how) ==
    <<Call("update_subscription_status", sid, status)>>
    \o (IF changed THEN <<Call("save_subscriptions", sid, how)>> ELSE << >>)

\* The handler without its "if not STRIPE_WEBHOOK_SECRET" guard.
SecretMissing_GuardDropped(cfg) == FALSE

\* "if not STRIPE_WEBHOOK_SECRET": the signing secret is unset or empty.
SecretMissing(cfg) == ~cfg.STRIPE_WEBHOOK_SECRET

\* stripe.Webhook.construct_event: returns the event iff the signature header
\* verifies against the secret (sig), else raises.
construct_event(sig) == sig

\* checkout.session.completed
HandleCheckout(cfg, f, ev, o) ==
    LET telegram_user_id ==
            IF ev.tid = None /\ cfg.TEST_TELEGRAM_USER_ID # None
            THEN cfg.TEST_TELEGRAM_USER_ID ELSE ev.tid
        plan == IF ev.plan = None THEN DefaultPlan ELSE ev.plan
        looked == ev.sid # None
        got == looked /\ o.lookup.ok
        status == IF got THEN o.lookup.status ELSE "active"
        current_period_end == IF got THEN o.lookup.cpe ELSE NoPeriod
        stored == telegram_user_id # None /\ ev.sid # None
        f1 == IF stored
              THEN record_subscription(f, telegram_user_id, ev.sid, plan, status,
                                       current_period_end, o.save)
              ELSE f
        invite == get_vip_invite_link(cfg, o.invite)
    IN Result(f1, 200,
         (IF looked
          THEN <<Call("retrieve", ev.sid, IF o.lookup.ok THEN "returned" ELSE "raised")>>
          ELSE << >>)
         \o (IF stored
             THEN <<Call("record_subscription", telegram_user_id, status),
                  Call("save_subscriptions", ev.sid, o.save)>>
             ELSE << >>)
         \o (IF telegram_user_id # None
             THEN <<Call("get_vip_invite_link", telegram_user_id, invite.link)>>
                  \o invite.calls
                  \o <<Call("send_telegram_message", telegram_user_id, "confirmed")>>
                  \o send_telegram_message(cfg, telegram_user_id, "confirmed")
             ELSE << >>))

\* invoice.payment_succeeded
HandlePaid(cfg, f, ev, o) ==
    IF ev.sid = None
    THEN Result(f, 200, << >>)
    ELSE
    LET u == IF o.lookup.ok
             THEN update_subscription_status(f, ev.sid, o.lookup.status, o.lookup.cpe, o.save)
             ELSE [changed |-> FALSE, file |-> f]
        telegram_user_id == find_telegram_by_subscription(u.file, ev.sid)
    IN Result(u.file, 200,
         <<Call("retrieve", ev.sid, IF o.lookup.ok THEN "returned" ELSE "raised")>>
         \o (IF o.lookup.ok
             THEN Updated(ev.sid, o.lookup.status, u.changed, o.save)
             ELSE << >>)
         \o (IF telegram_user_id # None
             THEN <<Call("send_telegram_message", telegram_user_id, "renewed")>>
                  \o send_telegram_message(cfg, telegram_user_id, "renewed")
             ELSE << >>))

\* customer.subscription.deleted
HandleDeleted(cfg, f, ev, o) ==
    LET u == update_subscription_status(f, ev.sid, "canceled", ev.cpe, o.save)
        telegram_user_id == find_telegram_by_subscription(u.file, ev.sid)
        rm == remove_user_from_vip(cfg, telegram_user_id, o.ban)
        upd == Updated(ev.sid, "canceled", u.changed, o.save)
    IN IF telegram_user_id = None
       THEN Result(u.file, 200, upd)
       ELSE IF rm.raised
       THEN Result(u.file, 500,
                   upd \o <<Call("remove_user_from_vip", telegram_user_id, "raised")>>)
       ELSE Result(u.file, 200,
                   upd \o <<Call("remove_user_from_vip", telegram_user_id, "returned")>>
                   \o rm.calls
                   \o <<Call("send_telegram_message", telegram_user_id, "access-removed")>>
                   \o send_telegram_message(cfg, telegram_user_id, "access-removed"))

\* invoice.payment_failed
HandleFailed(cfg, f, ev, o) ==
    IF ev.sid = None
    THEN Result(f, 200, << >>)
    ELSE LET u == update_subscription_status(f, ev.sid, "past_due", NoPeriod, o.save)
         IN Result(u.file, 200,
                   Updated(ev.sid, "past_due", u.changed, o.save))

\* The dispatch ending in "else" instead of "elif": any other type is handled
\* as customer.subscription.deleted.
stripe_webhook_ElseDeleted(cfg, f, ev, sig, o) ==
    IF SecretMissing(cfg) THEN Result(f, 400, << >>)
    ELSE IF ~construct_event(sig) THEN Result(f, 400, << >>)
    ELSE CASE ev.type = CHECKOUT -> HandleCheckout(cfg, f, ev, o)
           [] ev.type = PAID -> HandlePaid(cfg, f, ev, o)
           [] ev.type = FAILED -> HandleFailed(cfg, f, ev, o)
           [] OTHER -> HandleDeleted(cfg, f, ev, o)

stripe_webhook(cfg, f, ev, sig, o) ==
    IF SecretMissing(cfg) THEN Result(f, 400, << >>)
    ELSE IF ~construct_event(sig) THEN Result(f, 400, << >>)
    ELSE CASE ev.type = CHECKOUT -> HandleCheckout(cfg, f, ev, o)
           [] ev.type = PAID -> HandlePaid(cfg, f, ev, o)
           [] ev.type = DELETED -> HandleDeleted(cfg, f, ev, o)
           [] ev.type = FAILED -> HandleFailed(cfg, f, ev, o)
           [] OTHER -> Result(f, 200, << >>)

----------------------------------------------------------------------------
(* Admin endpoints *)

\* The check "a key header is present" without the comparison.
require_admin_AnyKey(key) == key # None

require_admin(key) == key # None /\ key = ADMIN_API_KEY

Reply(code, body, returned) == [code |-> code, body |-> body, returned |-> returned]

admin_subscriptions(f, key) ==
    IF ~require_admin(key)
    THEN Reply(403, "unauthorized", << >>)
    ELSE Reply(200, "subscriptions", load_subscriptions(f))

admin_subscription_detail(f, key, telegram_id) ==
    LET subs == load_subscriptions(f)
        i == IndexOf(subs, telegram_id)
    IN IF ~require_admin(key) THEN Reply(403, "unauthorized", << >>)
       ELSE IF i = 0 THEN Reply(404, "not_found", << >>)
       ELSE Reply(200, "info", <<subs[i]>>)

----------------------------------------------------------------------------
(* Inputs *)

Event(type, tid, plan, sid, cpe) ==
    [type |-> type, tid |-> tid, plan |-> plan, sid |-> sid, cpe |-> cpe]

CheckoutEvents ==
    {Event(CHECKOUT, t, p, s, NoPeriod) :
        t \in Tids \cup {None}, p \in PlanInputs, s \in Sids \cup {None}}
PaidEvents == {Event(PAID, None, None, s, NoPeriod) : s \in Sids \cup {None}}
DeletedEvents ==
    {Event(DELETED, None, None, s, c) : s \in Sids \cup {None}, c \in Periods \cup {NoPeriod}}
FailedEvents == {Event(FAILED, None, None, s, NoPeriod) : s \in Sids \cup {None}}
\* Events of a type no branch handles; their object may name a subscription.
OtherEvents == {Event(OTHER_TYPE, None, None, s, NoPeriod) : s \in Sids \cup {None}}
NoEvent == Event(None, None, None, None, NoPeriod)

\* stripe.Subscription.retrieve: raises, or returns a status and a period end.
LookupFails == [ok |-> FALSE, status |-> None, cpe |-> NoPeriod]
LookupResults ==
    {LookupFails} \cup [ok : {TRUE}, status : StripeStatuses, cpe : Periods]
SaveOutcomes == {"ok", "open_fails", "write_fails"}
InviteOutcomes == {"ok", "failed"}
BanOutcomes == {"returned", "raised"}

Outcome(lookup, save, invite, ban) ==
    [lookup |-> lookup, save |-> save, invite |-> invite, ban |-> ban]
NoOutcome == Outcome(LookupFails, "ok", "ok", "returned")

\* The outcome of a call is drawn only where the handler makes the call.
Buyer(cfg, ev) ==
    IF ev.tid = None /\ cfg.TEST_TELEGRAM_USER_ID # None
    THEN cfg.TEST_TELEGRAM_USER_ID ELSE ev.tid
Known(f, sid) == Matches(load_subscriptions(f), sid) # {}
LookupsIf(called) == IF called THEN LookupResults ELSE {LookupFails}
SavesIf(called) == IF called THEN SaveOutcomes ELSE {"ok"}
InvitesIf(called) == IF called THEN InviteOutcomes ELSE {"ok"}
BansIf(called) == IF called THEN BanOutcomes ELSE {"returned"}

Configured ==
    [STRIPE_WEBHOOK_SECRET |-> TRUE, TELEGRAM_BOT_TOKEN |-> TRUE,
     VIP_CHANNEL_ID |-> TRUE, VIP_STATIC_INVITE_LINK |-> TRUE,
     TEST_TELEGRAM_USER_ID |-> None]

\* The deployments considered: fully configured, without a signing secret,
\* and with the test subscriber id set.
Configs ==
    {Configured,
     [Configured EXCEPT !.STRIPE_WEBHOOK_SECRET = FALSE],
     [Configured EXCEPT !.TEST_TELEGRAM_USER_ID = "42"]}

----------------------------------------------------------------------------
(* State machine: one request handled at a time *)

Request(req, ev, sig, key, path, code, calls, body, returned) ==
    [req |-> req, event |-> ev, sig |-> sig, key |-> key, path |-> path,
     code |-> code, calls |-> calls, body |-> body, returned |-> returned]

NoRequest == Request("none", NoEvent, FALSE, None, None, 0, << >>, None, << >>)

NoOp == [fn |-> None, tid |-> None, sid |-> None, plan |-> None,
         status |-> None, cpe |-> NoPeriod]
Procs == {1, 2}
Idle == [p \in Procs |-> [pc |-> "idle", op |-> NoOp, subs |-> EmptyDict]]

Init ==
    /\ config \in Configs
    /\ file = EmptyFile
    /\ last = NoRequest
    /\ tick = 0
    /\ round = 0
    /\ base = EmptyFile
    /\ procs = Idle

\* The request passes the gate of stripe_webhook.
Accepted(cfg, sig) == ~SecretMissing(cfg) /\ construct_event(sig)

\* One POST /stripe-webhook, start to response.  The event is known to the
\* handler only once construct_event has returned it.
Deliver(ev, sig, o) ==
    \E r \in {stripe_webhook(config, file, ev, sig, o)} :
       /\ file' = r.file
       /\ last' = Request("stripe_webhook",
                          IF Accepted(config, sig) THEN ev ELSE NoEvent, sig,
                          None, None, r.code, r.calls,
                          IF r.code = 200 THEN "OK" ELSE "error", << >>)
       /\ tick' = 1 - tick
       /\ UNCHANGED <<config, round, base, procs>>

\* A request whose signature header does not verify; the payload is any event.
BadSignature ==
    \E ev \in CheckoutEvents \cup PaidEvents \cup DeletedEvents \cup FailedEvents
              \cup OtherEvents, sig \in BOOLEAN :
        /\ ~sig
        /\ Deliver(ev, sig, NoOutcome)

CheckoutCompleted ==
    \E ev \in CheckoutEvents :
      \E lookup \in LookupsIf(Accepted(config, TRUE) /\ ev.sid # None),
         save \in SavesIf(Accepted(config, TRUE) /\ Buyer(config, ev) # None
                          /\ ev.sid # None),
         invite \in InvitesIf(Accepted(config, TRUE) /\ Buyer(config, ev) # None
                              /\ config.VIP_CHANNEL_ID
                              /\ ~config.VIP_STATIC_INVITE_LINK) :
        Deliver(ev, TRUE, Outcome(lookup, save, invite, "returned"))

InvoicePaymentSucceeded ==
    \E ev \in PaidEvents :
      \E lookup \in LookupsIf(Accepted(config, TRUE) /\ ev.sid # None) :
       \E save \in SavesIf(lookup.ok /\ Known(file, ev.sid)) :
        Deliver(ev, TRUE, Outcome(lookup, save, "ok", "returned"))

SubscriptionDeleted ==
    \E ev \in DeletedEvents :
      \E save \in SavesIf(Accepted(config, TRUE) /\ Known(file, ev.sid)),
         ban \in BansIf(Accepted(config, TRUE) /\ Known(file, ev.sid)
                        /\ config.VIP_CHANNEL_ID
                        /\ find_telegram_by_subscription(file, ev.sid) \in NumericTids) :
        Deliver(ev, TRUE, Outcome(LookupFails, save, "ok", ban))

InvoicePaymentFailed ==
    \E ev \in FailedEvents :
      \E save \in SavesIf(Accepted(config, TRUE) /\ Known(file, ev.sid)) :
        Deliver(ev, TRUE, Outcome(LookupFails, save, "ok", "returned"))

UnhandledEvent ==
    \E ev \in OtherEvents :
        /\ ev.type \notin {CHECKOUT, PAID, DELETED, FAILED}
        /\ Deliver(ev, TRUE, NoOutcome)

AdminList ==
    \E key \in AdminKeys :
        \E r \in {admin_subscriptions(file, key)} :
           /\ last' = Request("admin_subscriptions", NoEvent, FALSE, key, None,
                              r.code, << >>, r.body, r.returned)
           /\ tick' = 1 - tick
           /\ UNCHANGED <<config, file, round, base, procs>>

AdminDetail ==
    \E key \in AdminKeys, telegram_id \in Tids :
        \E r \in {admin_subscription_detail(file, key, telegram_id)} :
           /\ last' = Request("admin_subscription_detail", NoEvent, FALSE, key,
                              telegram_id, r.code, << >>, r.body, r.returned)
           /\ tick' = 1 - tick
           /\ UNCHANGED <<config, file, round, base, procs>>

Next ==
    \/ BadSignature
    \/ CheckoutCompleted
    \/ InvoicePaymentSucceeded
    \/ SubscriptionDeleted
    \/ InvoicePaymentFailed
    \/ UnhandledEvent
    \/ AdminList
    \/ AdminDetail

Spec == Init /\ [][Next]_vars

----------------------------------------------------------------------------
(* Two webhook calls served concurrently (Flask serves each request on its  *)
(* own thread): the store functions are a load, a change of the loaded      *)
(* dict and a save, with nothing held in between.                           *)

\* The store call a handler makes: record_subscription (checkout) or
\* update_subscription_status (renewal, deletion, failed payment).
RecordOps ==
    {[fn |-> "record_subscription", tid |-> t, sid |-> s, plan |-> p,
      status |-> st, cpe |-> c] :
        t \in Tids, s \in Sids, p \in Plans, st \in StripeStatuses, c \in Periods}
UpdateOps ==
    {[fn |-> "update_subscription_status", tid |-> None, sid |-> s, plan |-> None,
      status |-> st, cpe |-> c] :
        s \in Sids, st \in StripeStatuses, c \in Periods \cup {NoPeriod}}
StoreOps == RecordOps \cup UpdateOps

\* The call run alone, start to end.
Apply(op, f) ==
    IF op.fn = "record_subscription"
    THEN record_subscription(f, op.tid, op.sid, op.plan, op.status, op.cpe, "ok")
    ELSE update_subscription_status(f, op.sid, op.status, op.cpe, "ok").file

\* What the call writes back, given the dict it loaded earlier.
WriteBack(op, subs, f) ==
    IF op.fn = "record_subscription"
    THEN save_subscriptions(f, DictSet(subs, Info(op.tid, op.sid, op.plan, op.status, op.cpe)), "ok")
    ELSE IF Matches(subs, op.sid) # {}
    THEN save_subscriptions(f, SetStatus(subs, op.sid, op.status, op.cpe), "ok")
    ELSE f

AllAt(pc) == \A p \in Procs : procs[p].pc = pc

Begin ==
    /\ AllAt("idle") \/ AllAt("done")
    /\ round < MaxRounds
    /\ \E op1 \in StoreOps, op2 \in StoreOps :
         procs' = [p \in Procs |->
                     [pc |-> "load", op |-> IF p = 1 THEN op1 ELSE op2,
                      subs |-> EmptyDict]]
    /\ base' = file
    /\ round' = round + 1
    /\ UNCHANGED <<config, file, last, tick>>

Load(p) ==
    /\ procs[p].pc = "load"
    /\ procs' = [procs EXCEPT ![p].pc = "save", ![p].subs = load_subscriptions(file)]
    /\ UNCHANGED <<config, file, last, tick, round, base>>

Save(p) ==
    /\ procs[p].pc = "save"
    /\ file' = WriteBack(procs[p].op, procs[p].subs, file)
    /\ procs' = [procs EXCEPT ![p].pc = "done", ![p].subs = EmptyDict]
    /\ UNCHANGED <<config, last, tick, round, base>>

InitConc == Init /\ config = Configured

NextConc ==
    \/ Begin
    \/ \E p \in Procs : Load(p)
    \/ \E p \in Procs : Save(p)

SpecConc == InitConc /\ [][NextConc]_vars

----------------------------------------------------------------------------
(* Properties *)

IsWebhook(r) == r.req = "stripe_webhook"
\* r is a webhook request that reached the handler branch of event type.
Handled(r, type) == IsWebhook(r) /\ r.event.type = type

CallsTo(r, op) == {i \in 1..Len(r.calls) : r.calls[i].op = op}
Grants(r) == Cardinality(CallsTo(r, "get_vip_invite_link"))
Revokes(r) == Cardinality(CallsTo(r, "remove_user_from_vip"))
NotifiesOf(r, kind) ==
    {i \in CallsTo(r, "send_telegram_message") : r.calls[i].what = kind}
Notifies(r, kind) == Cardinality(NotifiesOf(r, kind))
AllNotifies(r) == Cardinality(CallsTo(r, "send_telegram_message"))
SaveFailed(r) == \E i \in CallsTo(r, "save_subscriptions") : r.calls[i].what # "ok"

RecordsFor(f, sid) ==
    LET subs == load_subscriptions(f)
    IN {subs[i] : i \in Matches(subs, sid)}
StatusesOf(f, sid) == {r.status : r \in RecordsFor(f, sid)}
Stored(f) == LET subs == load_subscriptions(f) IN {subs[i] : i \in 1..Len(subs)}

\* C1: delivering the same verified checkout.session.completed event (with
\* subscriber id, plan and subscription id) twice in a row leaves exactly one
\* active record for the subscription and makes, over both deliveries, exactly
\* one grant and exactly one "confirmed" notification.
C1_PurchaseIdempotent ==
    [][ ( /\ Handled(last, CHECKOUT)
          /\ last.event.tid # None /\ last.event.plan # None /\ last.event.sid # None
          /\ IsWebhook(last') /\ last'.event = last.event )
        => /\ Cardinality({r \in RecordsFor(file', last.event.sid) : r.status = "active"}) = 1
           /\ Grants(last) + Grants(last') = 1
           /\ Notifies(last, "confirmed") + Notifies(last', "confirmed") = 1 ]_vars

\* C2: once customer.subscription.deleted has set the record of a subscription
\* to canceled, a stale invoice.payment_succeeded for the same subscription
\* leaves the status canceled, whatever Stripe returns for the lookup.
C2_NoBackwardRegression ==
    [][ ( /\ Handled(last, DELETED)
          /\ StatusesOf(file, last.event.sid) = {"canceled"}
          /\ Handled(last', PAID) /\ last'.event.sid = last.event.sid )
        => StatusesOf(file', last.event.sid) = {"canceled"} ]_vars

\* C3: when two webhook calls run concurrently, the final store equals the
\* store of the two calls run one after the other in some order (no update is
\* lost to a stale write-back of the whole store).
C3_SerializedUpdates ==
    AllAt("done") =>
        \/ file = Apply(procs[2].op, Apply(procs[1].op, base))
        \/ file = Apply(procs[1].op, Apply(procs[2].op, base))

\* C4: after purchase completed then subscription ended for one subscription,
\* redelivering the purchase completed event makes no grant and no
\* notification, and the status stays canceled.
C4_ReplayAfterCancelIsNoOp ==
    [][ ( /\ Handled(last, DELETED)
          /\ StatusesOf(file, last.event.sid) = {"canceled"}
          /\ Handled(last', CHECKOUT)
          /\ last'.event.sid = last.event.sid
          /\ \E r \in RecordsFor(file, last.event.sid) :
                r.tid = last'.event.tid /\ r.plan = last'.event.plan )
        => /\ Grants(last') = 0
           /\ AllNotifies(last') = 0
           /\ StatusesOf(file', last.event.sid) = {"canceled"} ]_vars

\* C5: for a stored active record, one customer.subscription.deleted for its
\* subscription sets it canceled, calls revoke exactly once and for that
\* record's subscriber, sends exactly one "access removed" notification to that
\* subscriber, and a following authorized admin query for the subscriber
\* returns status canceled.
C5_EndedRevokesOnce ==
    [][ /\ \A r \in Stored(file) :
             ( /\ r.status = "active"
               /\ Handled(last', DELETED) /\ last'.event.sid = r.subscription_id )
             => /\ \E q \in Stored(file') : q.tid = r.tid /\ q.status = "canceled"
                /\ Revokes(last') = 1
                /\ \A i \in CallsTo(last', "remove_user_from_vip") : last'.calls[i].to = r.tid
                /\ Notifies(last', "access-removed") = 1
                /\ \A i \in NotifiesOf(last', "access-removed") : last'.calls[i].to = r.tid
        /\ \A r \in Stored(file) :
             ( /\ Handled(last, DELETED) /\ last.event.sid = r.subscription_id
               /\ last'.req = "admin_subscription_detail"
               /\ last'.key = ADMIN_API_KEY /\ last'.path = r.tid )
             => /\ last'.code = 200
                /\ \A q \in {last'.returned[i] : i \in 1..Len(last'.returned)} :
                      q.status = "canceled" ]_vars

\* C6: for a record already canceled, another customer.subscription.deleted
\* for its subscription makes no revoke call and no notification, leaves the
\* record unchanged, and the webhook still answers 200.
C6_EndedRedeliveryIsNoOp ==
    [][ ( /\ StatusesOf(file, last'.event.sid) = {"canceled"}
          /\ Handled(last', DELETED) )
        => /\ Revokes(last') = 0
           /\ AllNotifies(last') = 0
           /\ RecordsFor(file', last'.event.sid) = RecordsFor(file, last'.event.sid)
           /\ last'.code = 200 ]_vars

\* C7: checkout.session.completed makes the grant and the "confirmed"
\* notification only if the status it stores for the subscription is active
\* and the record was not already active; when Stripe resolves the
\* subscription to another status there is no grant and no notification.
C7_GrantOnlyOnTransitionToActive ==
    [][ ( /\ Handled(last', CHECKOUT) /\ last'.event.sid # None
          /\ Grants(last') + Notifies(last', "confirmed") > 0 )
        => /\ \E i \in CallsTo(last', "record_subscription") : last'.calls[i].what = "active"
           /\ "active" \notin StatusesOf(file, last'.event.sid) ]_vars

\* C8: a webhook request whose signing secret is unconfigured or whose
\* signature does not verify gets a non-200 response, leaves the store
\* unchanged and makes no Stripe lookup, grant, revoke or notification: no
\* handler branch runs without a successful verification.
C8_VerificationGateFailsClosed ==
    [][ ( /\ IsWebhook(last') /\ tick' # tick
          /\ ~config.STRIPE_WEBHOOK_SECRET \/ ~last'.sig )
        => /\ last'.code # 200
           /\ file' = file
           /\ last'.calls = << >>
           /\ last'.event = NoEvent ]_vars

\* A request with a bad signature was refused while the store held a record.
C8_Witness ==
    /\ IsWebhook(last) /\ ~last.sig /\ config.STRIPE_WEBHOOK_SECRET
    /\ last.code = 400
    /\ load_subscriptions(file) # EmptyDict

\* C9: whenever a verified event requires a store write and save_subscriptions
\* cannot write the file, the webhook answers with a server error, never 200.
C9_PersistenceFailureSurfaced ==
    (IsWebhook(last) /\ SaveFailed(last)) => last.code >= 500

\* C10: for every verified event of a recognized type, whatever fails among
\* the Stripe lookup, the grant or revoke (also for a subscriber id that is not
\* a numeric string) and the notification, the webhook answers 200 and the
\* status computed for the record is persisted.
C10_DownstreamFailuresNotPropagated ==
    ( /\ IsWebhook(last) /\ last.event.type \in {CHECKOUT, PAID, DELETED, FAILED}
      /\ ~SaveFailed(last) )
    => /\ last.code = 200
       /\ \A i \in CallsTo(last, "update_subscription_status") :
             StatusesOf(file, last.calls[i].to) \subseteq {last.calls[i].what}
       /\ \A i \in CallsTo(last, "record_subscription") :
             \E r \in Stored(file) :
                r.tid = last.calls[i].to /\ r.status = last.calls[i].what

\* C11: a verified event whose type is none of checkout.session.completed,
\* invoice.payment_succeeded, invoice.payment_failed and
\* customer.subscription.deleted is answered 200, leaves the store unchanged
\* and makes no Stripe lookup, grant, revoke or notification.
C11_UnknownEventIgnored ==
    [][ ( /\ IsWebhook(last') /\ tick' # tick
          /\ last'.event # NoEvent
          /\ last'.event.type \notin {CHECKOUT, PAID, DELETED, FAILED} )
        => /\ last'.code = 200
           /\ file' = file
           /\ CallsTo(last', "retrieve") = {}
           /\ Grants(last') = 0
           /\ Revokes(last') = 0
           /\ AllNotifies(last') = 0 ]_vars

\* An unhandled event naming the subscription of a stored record was answered 200.
C11_Witness ==
    /\ Handled(last, OTHER_TYPE) /\ last.code = 200
    /\ last.event.sid # None /\ Known(file, last.event.sid)

\* C12: invoice.payment_failed with a subscription id sets the status of the
\* record(s) with that subscription id to past_due, makes no grant, revoke or
\* notification, and leaves every other record and every other field of the
\* matched record unchanged.
C12_PaymentFailedSetsPastDue ==
    [][ ( /\ Handled(last', FAILED) /\ tick' # tick
          /\ last'.event.sid # None )
        => /\ Stored(file') =
                {IF r.subscription_id = last'.event.sid
                 THEN [r EXCEPT !.status = "past_due"] ELSE r : r \in Stored(file)}
           /\ Grants(last') = 0
           /\ Revokes(last') = 0
           /\ AllNotifies(last') = 0 ]_vars

\* C13: in every reachable state of the store no two records carry the same
\* subscription id, also when checkout.session.completed events for one
\* subscription id arrive with different subscriber ids.
C13_UniqueBySubscriptionId ==
    LET subs == load_subscriptions(file)
    IN \A i, j \in 1..Len(subs) :
          subs[i].subscription_id = subs[j].subscription_id => i = j

\* C14: once the store holds a record for a subscription id, every later
\* state still holds a record for it (also when every store write succeeds),
\* including after the same subscriber buys a subscription with another id.
C14_RecordsNeverDeleted ==
    [][ ( IsWebhook(last') /\ ~SaveFailed(last') )
        => \A sid \in Sids :
              RecordsFor(file, sid) # {} => RecordsFor(file', sid) # {} ]_vars

\* C15: in every reachable state, for every subscriber id at most one record
\* of the store has status active.
C15_OneActivePerSubscriber ==
    LET subs == load_subscriptions(file)
    IN \A t \in Tids :
          Cardinality({i \in 1..Len(subs) :
                          subs[i].tid = t /\ subs[i].status = "active"}) <= 1

\* A checkout has just stored an active record for a subscriber while the
\* store holds another active record.
C15_Witness ==
    LET subs == load_subscriptions(file)
    IN /\ Handled(last, CHECKOUT) /\ last.event.sid # None
       /\ \E i \in 1..Len(subs) :
             /\ subs[i].tid = last.event.tid /\ subs[i].status = "active"
             /\ subs[i].subscription_id = last.event.sid
       /\ \E j \in 1..Len(subs) :
             subs[j].tid # last.event.tid /\ subs[j].status = "active"

\* C16: an admin request (list or detail) whose key header is missing or is
\* not the configured key gets the one unauthorized response, the same for
\* every store content; with the right key a detail request for a subscriber
\* without a record gets not-found; no admin request changes the store.
C16_AdminAccessControl ==
    [][ ( /\ last'.req \in {"admin_subscriptions", "admin_subscription_detail"}
          /\ tick' # tick )
        => /\ file' = file
           /\ last'.key # ADMIN_API_KEY
                => /\ last'.code = 403
                   /\ last'.body = "unauthorized"
                   /\ last'.returned = << >>
           /\ ( /\ last'.key = ADMIN_API_KEY
                /\ last'.req = "admin_subscription_detail"
                /\ IndexOf(load_subscriptions(file), last'.path) = 0 )
                => /\ last'.code = 404
                   /\ last'.returned = << >> ]_vars

\* A detail request with a wrong key for a subscriber that has a record was
\* refused.
C16_Witness ==
    /\ last.req = "admin_subscription_detail"
    /\ last.key = "wrong" /\ last.code = 403
    /\ IndexOf(load_subscriptions(file), last.path) # 0

\* C17: invoice.payment_succeeded sends the "renewed" notification only if
\* the status of the subscription's record after the event is active; not when
\* Stripe resolves another status, and not when the lookup fails and the
\* record stays canceled or past_due.
C17_RenewedOnlyWhenActive ==
    [][ ( /\ Handled(last', PAID) /\ tick' # tick
          /\ Notifies(last', "renewed") > 0 )
        => StatusesOf(file', last'.event.sid) = {"active"} ]_vars

\* C18: when the Stripe lookup fails for a checkout.session.completed (with a
\* subscriber) or an invoice.payment_succeeded (with a stored record) that
\* carries a subscription id, the webhook answers 200 and the record of that
\* subscription id (for a checkout: the subscriber's record of it) gets status
\* active, also when every store write succeeds; it is not left in its
\* previous status.
C18_LookupFailureFallsBackToActive ==
    [][ ( /\ IsWebhook(last') /\ tick' # tick
          /\ last'.event.type \in {CHECKOUT, PAID}
          /\ last'.event.sid # None
          /\ \E i \in CallsTo(last', "retrieve") : last'.calls[i].what = "raised"
          /\ ~SaveFailed(last')
          /\ \/ last'.event.type = CHECKOUT /\ Buyer(config, last'.event) # None
             \/ last'.event.type = PAID /\ Known(file, last'.event.sid) )
        => /\ last'.code = 200
           /\ last'.event.type = CHECKOUT
                => \E r \in RecordsFor(file', last'.event.sid) :
                      r.tid = Buyer(config, last'.event) /\ r.status = "active"
           /\ last'.event.type = PAID
                => StatusesOf(file', last'.event.sid) = {"active"} ]_vars

\* C19: in every run of remove_user_from_vip the ban call comes before the
\* unban call, and whenever the ban call was issued the unban call is issued
\* too, whatever the outcome of the ban call (reply or exception).
C19_RevokeNeverLeavesBan ==
    [][ ( IsWebhook(last') /\ tick' # tick )
        => /\ \A i \in CallsTo(last', "banChatMember") :
                \E j \in CallsTo(last', "unbanChatMember") :
                   j > i /\ last'.calls[j].to = last'.calls[i].to
           /\ \A j \in CallsTo(last', "unbanChatMember") :
                \E i \in CallsTo(last', "banChatMember") : i < j ]_vars

\* C20: whenever checkout.session.completed makes a grant for a subscriber
\* (and every store write succeeds), the store then holds an active record
\* for that subscriber, written before the grant and the notification; also
\* for an event without a subscription id and for a subscriber id taken from
\* TEST_TELEGRAM_USER_ID.
C20_GrantBackedByActiveRecord ==
    [][ ( /\ Handled(last', CHECKOUT) /\ tick' # tick
          /\ ~SaveFailed(last') )
        => \A g \in CallsTo(last', "get_vip_invite_link") :
              /\ \E r \in Stored(file') :
                    r.tid = last'.calls[g].to /\ r.status = "active"
              /\ \E w \in CallsTo(last', "record_subscription") :
                    w < g /\ last'.calls[w].to = last'.calls[g].to ]_vars

====
